---- MODULE Spec2Model ----
(***************************************************************************)
(* Model of xpag/tools/utils.py: the backend classifier get_datatype, the  *)
(* converter datatype_convert, the backend-dispatching operations reshape, *)
(* hstack, maximum, squeeze and where, and get_env_dimensions.             *)
(*                                                                         *)
(* A value is a record                                                     *)
(*   kind   "torch" (torch.Tensor), "jax" (DeviceArray), "numpy"           *)
(*          (np.ndarray), "list", "scalar" (Python float), "npscalar"      *)
(*          (np.float64 and friends, only ever produced by numpy)          *)
(*   dev    device type of a torch tensor: "cpu", "cuda", "xla"            *)
(*   idx    device index of a CUDA tensor                                  *)
(*   grad   requires_grad of a torch tensor                                *)
(*   dtype  "f32" or "f64"                                                 *)
(*   shape  sequence of dimensions, elems the elements in row-major order  *)
(*   id     object identity: "x", "y" (the caller's objects) or "new"      *)
(***************************************************************************)
EXTENDS Integers, Sequences, FiniteSets, TLC

VARIABLES ncuda, x, y, cond, env, is_goalenv, info, op, arg_datatype,
          arg_shape, res

vars ==
  <<ncuda, x, y, cond, env, is_goalenv, info, op, arg_datatype, arg_shape, res>>

\* Bounds of the model.
MaxCuda == 2
MaxRank == 1
MaxDim == 2
MaxSize == 2
MaxSpaceDim == 2

(***************************************************************************)
(* Element values.  Arrays hold two representative numbers: 0, which every *)
(* dtype holds, and Big = 2^24 + 1, the smallest positive integer that a   *)
(* float64 holds and a float32 does not: float32 rounds it to 2^24.        *)
(***************************************************************************)
Big == 2^24 + 1

Round32(e) == IF e = Big THEN Big - 1 ELSE e

E32 == {0}

E64 == E32 \cup {Big}

Max(a, b) == IF a >= b THEN a ELSE b

RECURSIVE Size(_)
Size(shape) == IF shape = <<>> THEN 1 ELSE Head(shape) * Size(Tail(shape))

Shapes ==
  {s \in UNION {[1..r -> 1..MaxDim] : r \in 0..MaxRank} : Size(s) <= MaxSize}

DataOf(dtype, shape) ==
  [1..Size(shape) -> IF dtype = "f32" THEN E32 ELSE E64]

Cast(dtype, elems) ==
  IF dtype = "f32" THEN [i \in DOMAIN elems |-> Round32(elems[i])] ELSE elems

Round32IfF32(dtype, e) == IF dtype = "f32" THEN Round32(e) ELSE e

\* Type promotion of two array operands.
Promote(a, b) == IF a = "f64" \/ b = "f64" THEN "f64" ELSE "f32"

(***************************************************************************)
(* The DataType enumeration.                                               *)
(***************************************************************************)
TORCH_CPU == "TORCH_CPU"
TORCH_CUDA == "TORCH_CUDA"
NUMPY == "NUMPY"
JAX == "JAX"
None == "None"

DataType == {TORCH_CPU, TORCH_CUDA, NUMPY, JAX}

NoValue ==
  [kind |-> "none", dev |-> "none", idx |-> 0, grad |-> FALSE,
   dtype |-> "none", shape |-> <<>>, elems |-> <<>>, id |-> "none"]

Val(kind, dev, idx, grad, dtype, shape, elems, id) ==
  [kind |-> kind, dev |-> dev, idx |-> idx, grad |-> grad,
   dtype |-> dtype, shape |-> shape, elems |-> elems, id |-> id]

\* A Python dict with string keys; None is stored as PyNone.
EmptyDict == [k \in {} |-> 0]
PyNone == 0

\* Outcomes of a call: a returned value, tag or dict, or a raised error.
Ok(v) ==
  [ok |-> TRUE, err |-> "none", val |-> v, tag |-> "none", dict |-> EmptyDict]
OkTag(t) ==
  [ok |-> TRUE, err |-> "none", val |-> NoValue, tag |-> t, dict |-> EmptyDict]
OkDict(d) ==
  [ok |-> TRUE, err |-> "none", val |-> NoValue, tag |-> "none", dict |-> d]
Err(e) ==
  [ok |-> FALSE, err |-> e, val |-> NoValue, tag |-> "none", dict |-> EmptyDict]

\* The two TypeErrors get_datatype raises, and the errors the backends raise.
UnsupportedDevice == "TypeError: PyTorch devices other than CPU or CUDA are not handled"
UnrecognizedType == "TypeError: type not handled"
BackendError == "backend: device unavailable or not convertible to numpy"
DeviceMismatch == "backend: tensors on different devices"
ShapeError == "backend: shapes do not match"
ConditionError == "backend: condition is not a tensor"

(***************************************************************************)
(* The values a caller can hold on a host with n visible CUDA devices.     *)
(***************************************************************************)
Devices(n) ==
  {<<"cpu", 0>>, <<"xla", 0>>} \cup {<<"cuda", i>> : i \in 0..(n - 1)}

DTypes == {"f32", "f64"}

TorchValues(n, id) ==
  UNION {UNION {{Val("torch", d[1], d[2], g, t, s, e, id) :
                   d \in Devices(n), g \in BOOLEAN, e \in DataOf(t, s)} :
                s \in Shapes} : t \in DTypes}

\* jax keeps float32 unless jax_enable_x64 is set.
JaxValues(id) ==
  UNION {{Val("jax", "none", 0, FALSE, "f32", s, e, id) : e \in DataOf("f32", s)} :
         s \in Shapes}

NumpyValues(id) ==
  UNION {UNION {{Val("numpy", "none", 0, FALSE, t, s, e, id) : e \in DataOf(t, s)} :
                s \in Shapes} : t \in DTypes}

\* Python lists (nested for rank 2) of floats, and Python floats.
ListValues(id) ==
  UNION {{Val("list", "none", 0, FALSE, "f64", s, e, id) : e \in DataOf("f64", s)} :
         s \in {s \in Shapes : s # <<>>}}

ScalarValues(id) ==
  {Val("scalar", "none", 0, FALSE, "f64", <<>>, e, id) : e \in DataOf("f64", <<>>)}

Values(n, id) ==
  TorchValues(n, id) \cup JaxValues(id) \cup NumpyValues(id)
    \cup ListValues(id) \cup ScalarValues(id)

(***************************************************************************)
(* Type tests.                                                             *)
(***************************************************************************)
is_tensor(v) == v.kind = "torch"
isDeviceArray(v) == v.kind = "jax"
isNdarray(v) == v.kind = "numpy"

(***************************************************************************)
(* get_datatype                                                            *)
(***************************************************************************)
\* Mutant: the device test ends in a plain else.
get_datatype_two_devices(v) ==
  IF is_tensor(v)
  THEN IF v.dev = "cpu" THEN OkTag(TORCH_CPU) ELSE OkTag(TORCH_CUDA)
  ELSE IF isDeviceArray(v) THEN OkTag(JAX)
  ELSE IF isNdarray(v) THEN OkTag(NUMPY)
  ELSE Err(UnrecognizedType)

get_datatype(v) ==
  IF is_tensor(v)
  THEN IF v.dev = "cpu" THEN OkTag(TORCH_CPU)
       ELSE IF v.dev = "cuda" THEN OkTag(TORCH_CUDA)
       ELSE Err(UnsupportedDevice)
  ELSE IF isDeviceArray(v) THEN OkTag(JAX)
  ELSE IF isNdarray(v) THEN OkTag(NUMPY)
  ELSE Err(UnrecognizedType)

(***************************************************************************)
(* The backend calls datatype_convert makes.                               *)
(***************************************************************************)
\* The device "cpu" or "cuda" names: "cuda" is the current CUDA device, which
\* is device 0 unless torch.cuda.set_device is called (utils.py never does).
CurrentCuda == <<"cuda", 0>>

Resolve(device) == IF device = "cpu" THEN <<"cpu", 0>> ELSE CurrentCuda

Available(device) == device = "cpu" \/ ncuda > 0

\* Mutant: the tensor is copied even when it is already on the device.
tensor_to_copy(v, device) ==
  IF ~Available(device) THEN Err(BackendError)
  ELSE Ok([v EXCEPT !.dev = Resolve(device)[1], !.idx = Resolve(device)[2],
                    !.id = "new"])

\* x.to(device=...): self when the tensor is already there, else a copy.
tensor_to(v, device) ==
  IF ~Available(device) THEN Err(BackendError)
  ELSE IF <<v.dev, v.idx>> = Resolve(device) THEN Ok(v)
  ELSE Ok([v EXCEPT !.dev = Resolve(device)[1], !.idx = Resolve(device)[2],
                    !.id = "new"])

\* np.array(x) of a DeviceArray, a list or a float: a new ndarray.
np_array(v) ==
  Val("numpy", "none", 0, FALSE, v.dtype, v.shape, v.elems, "new")

\* Mutant: the tensor is always built as float32.
torch_tensor_float32(v, device) ==
  IF ~Available(device) THEN Err(BackendError)
  ELSE Ok(Val("torch", Resolve(device)[1], Resolve(device)[2], FALSE,
              "f32", v.shape, Cast("f32", v.elems), "new"))

\* torch.tensor(x, device=...) of an ndarray, a list or a float: a new leaf
\* tensor; Python floats become the default dtype float32.
torch_tensor(v, device) ==
  IF ~Available(device) THEN Err(BackendError)
  ELSE LET t == IF v.kind \in {"list", "scalar"} THEN "f32" ELSE v.dtype
       IN Ok(Val("torch", Resolve(device)[1], Resolve(device)[2], FALSE,
                 t, v.shape, Cast(t, v.elems), "new"))

\* x.detach().cpu().numpy(): a new ndarray object (over the tensor's own
\* memory when the tensor is on the CPU).
tensor_numpy(v) ==
  Val("numpy", "none", 0, FALSE, v.dtype, v.shape, v.elems, "new")

\* jnp.array(x) of an ndarray, a list or a float: a new float32 DeviceArray.
jnp_array(v) ==
  Val("jax", "none", 0, FALSE, "f32", v.shape, Cast("f32", v.elems), "new")

(***************************************************************************)
(* datatype_convert                                                        *)
(***************************************************************************)
\* Mutant: the CUDA branches name the CPU.
DeviceOf_always_cpu(datatype) == "cpu"

DeviceOf(datatype) == IF datatype = TORCH_CPU THEN "cpu" ELSE "cuda"

\* The branches for a target that is one of the four tags.
convert_to(v, datatype) ==
  IF datatype = TORCH_CPU \/ datatype = TORCH_CUDA
  THEN IF is_tensor(v) THEN tensor_to(v, DeviceOf(datatype))
       ELSE IF isDeviceArray(v) THEN torch_tensor(np_array(v), DeviceOf(datatype))
       ELSE torch_tensor(v, DeviceOf(datatype))
  ELSE IF datatype = NUMPY
  THEN IF is_tensor(v) THEN Ok(tensor_numpy(v))
       ELSE IF isNdarray(v) THEN Ok(v)
       ELSE Ok(np_array(v))
  ELSE IF is_tensor(v) THEN Ok(jnp_array(tensor_numpy(v)))
       ELSE IF isDeviceArray(v) THEN Ok(v)
       ELSE Ok(jnp_array(v))

\* Mutant: None falls back to the default target NUMPY.
datatype_convert_none_is_default(v, datatype) ==
  convert_to(v, IF datatype = None THEN NUMPY ELSE datatype)

\* Mutant: the source is classified before it is converted.
datatype_convert_classify_first(v, datatype) ==
  IF datatype = None THEN Ok(v)
  ELSE IF ~get_datatype(v).ok THEN get_datatype(v)
  ELSE convert_to(v, datatype)

datatype_convert(v, datatype) ==
  IF datatype = None THEN Ok(v) ELSE convert_to(v, datatype)

(***************************************************************************)
(* reshape and squeeze                                                     *)
(***************************************************************************)
\* x.reshape(shape) of a tensor, ndarray or DeviceArray: a new object of the
\* operand's own backend over the same elements.
method_reshape(v, newshape) ==
  IF Size(newshape) # Size(v.shape) THEN Err(ShapeError)
  ELSE Ok([v EXCEPT !.shape = newshape, !.id = "new"])

reshape(v, newshape) ==
  IF is_tensor(v) \/ isNdarray(v) \/ isDeviceArray(v)
  THEN method_reshape(v, newshape)
  ELSE method_reshape(np_array(v), newshape)

\* The shape without its dimensions of size 1.
Squeezed(s) == SelectSeq(s, LAMBDA d : d # 1)

\* torch.squeeze(x), jnp.squeeze(x): a new object of the same backend.
backend_squeeze(v) == [v EXCEPT !.shape = Squeezed(v.shape), !.id = "new"]

\* np.squeeze(x): of an ndarray a new view; anything else goes through
\* asarray first.
np_squeeze(v) ==
  IF isNdarray(v) THEN backend_squeeze(v) ELSE backend_squeeze(np_array(v))

\* Mutant: every operand is handed to numpy.
squeeze_numpy_only(v) == Ok(np_squeeze(v))

squeeze(v) ==
  IF is_tensor(v) THEN Ok(backend_squeeze(v))
  ELSE IF isDeviceArray(v) THEN Ok(backend_squeeze(v))
  ELSE Ok(np_squeeze(v))

(***************************************************************************)
(* Array arithmetic shared by the three backends.                          *)
(***************************************************************************)
Rank(v) == Len(v.shape)

\* atleast_1d: a rank-0 array becomes an array of one element.
AtLeast1d(s) == IF s = <<>> THEN <<1>> ELSE s

\* The shapes hstack can join: along axis 0 when the first array has rank 1,
\* along axis 1 otherwise.
Stackable(s, t) ==
  /\ Len(s) = Len(t)
  /\ IF Len(s) = 1 THEN TRUE
     ELSE /\ s[1] = t[1]
          /\ SubSeq(s, 3, Len(s)) = SubSeq(t, 3, Len(t))

StackShape(s, t) ==
  IF Len(s) = 1 THEN <<s[1] + t[1]>>
  ELSE [s EXCEPT ![2] = s[2] + t[2]]

RECURSIVE Interleave(_, _, _, _, _)
Interleave(a, b, blockA, blockB, rows) ==
  IF rows = 0 THEN <<>>
  ELSE SubSeq(a, 1, blockA) \o SubSeq(b, 1, blockB)
         \o Interleave(SubSeq(a, blockA + 1, Len(a)),
                       SubSeq(b, blockB + 1, Len(b)), blockA, blockB, rows - 1)

StackElems(s, a, t, b) ==
  IF Len(s) = 1 THEN a \o b
  ELSE Interleave(a, b, Size(Tail(s)), Size(Tail(t)), s[1])

\* Broadcasting: shapes are aligned on the right; a dimension of 1 stretches.
Pad(s, r) ==
  [i \in 1..r |-> IF i <= r - Len(s) THEN 1 ELSE s[i - (r - Len(s))]]

Broadcastable(s, t) ==
  LET r == Max(Len(s), Len(t))
  IN \A i \in 1..r :
       Pad(s, r)[i] = Pad(t, r)[i] \/ Pad(s, r)[i] = 1 \/ Pad(t, r)[i] = 1

BroadcastShape(s, t) ==
  LET r == Max(Len(s), Len(t))
  IN [i \in 1..r |-> Max(Pad(s, r)[i], Pad(t, r)[i])]

Stride(s, i) == Size(SubSeq(s, i + 1, Len(s)))

\* The row-major position, in an operand of shape s, of element k of the
\* broadcast result of shape o.
RECURSIVE Offset(_, _, _, _)
Offset(i, k, o, ps) ==
  IF i = 0 THEN 0
  ELSE (IF ps[i] = 1 THEN 0
        ELSE (((k - 1) \div Stride(o, i)) % o[i]) * Stride(ps, i))
         + Offset(i - 1, k, o, ps)

BroadcastAt(elems, s, o, k) == elems[1 + Offset(Len(o), k, o, Pad(s, Len(o)))]

\* Promotion of two floating operands: an operand of rank 0 (a Python float, a
\* 0-d array or tensor) takes the dtype of a dimensioned one.
PromoteDims(a, b) ==
  IF Rank(a) = 0 /\ Rank(b) > 0 THEN b.dtype
  ELSE IF Rank(b) = 0 /\ Rank(a) > 0 THEN a.dtype
  ELSE Promote(a.dtype, b.dtype)

MaxElems(a, b) ==
  LET o == BroadcastShape(a.shape, b.shape)
      t == PromoteDims(a, b)
  IN [k \in 1..Size(o) |->
        Round32IfF32(t, Max(BroadcastAt(a.elems, a.shape, o, k),
                            BroadcastAt(b.elems, b.shape, o, k)))]

\* The condition is a boolean mask of the result's shape holding c.val in
\* every position.
WhereElems(c, a, b) ==
  LET o == BroadcastShape(a.shape, b.shape)
      t == PromoteDims(a, b)
  IN [k \in 1..Size(o) |->
        Round32IfF32(t, IF c.val THEN BroadcastAt(a.elems, a.shape, o, k)
                        ELSE BroadcastAt(b.elems, b.shape, o, k))]

(***************************************************************************)
(* torch.hstack, torch.maximum, torch.where: both operands are tensors.    *)
(***************************************************************************)
SameDevice(a, b) == <<a.dev, a.idx>> = <<b.dev, b.idx>>

\* A rank-0 CPU tensor may be combined with a tensor on another device.
CpuScalar(v) == v.dev = "cpu" /\ Rank(v) = 0

OnDeviceOf(a, b) == IF CpuScalar(a) /\ ~SameDevice(a, b) THEN b ELSE a

torch_hstack(a, b) ==
  IF ~SameDevice(a, b) THEN Err(DeviceMismatch)
  ELSE IF ~Stackable(AtLeast1d(a.shape), AtLeast1d(b.shape)) THEN Err(ShapeError)
  ELSE Ok(Val("torch", a.dev, a.idx, a.grad \/ b.grad,
              Promote(a.dtype, b.dtype),
              StackShape(AtLeast1d(a.shape), AtLeast1d(b.shape)),
              StackElems(AtLeast1d(a.shape), a.elems, AtLeast1d(b.shape), b.elems),
              "new"))

torch_maximum(a, b) ==
  IF ~SameDevice(a, b) /\ ~CpuScalar(a) /\ ~CpuScalar(b) THEN Err(DeviceMismatch)
  ELSE IF ~Broadcastable(a.shape, b.shape) THEN Err(ShapeError)
  ELSE Ok(Val("torch", OnDeviceOf(a, b).dev, OnDeviceOf(a, b).idx,
              a.grad \/ b.grad, PromoteDims(a, b),
              BroadcastShape(a.shape, b.shape), MaxElems(a, b), "new"))

\* Older releases of torch.where take neither operands of two dtypes nor a
\* rank-0 CPU operand beside a CUDA one; `lenient` is the release at hand.
torch_where(c, a, b, lenient) ==
  IF c.kind # "torch" THEN Err(ConditionError)
  ELSE IF ~SameDevice(a, b) /\ ~(lenient /\ (CpuScalar(a) \/ CpuScalar(b)))
  THEN Err(DeviceMismatch)
  ELSE IF <<c.dev, c.idx>> # <<OnDeviceOf(a, b).dev, OnDeviceOf(a, b).idx>>
  THEN Err(DeviceMismatch)
  ELSE IF a.dtype # b.dtype /\ ~lenient THEN Err(BackendError)
  ELSE IF ~Broadcastable(a.shape, b.shape) THEN Err(ShapeError)
  ELSE Ok(Val("torch", OnDeviceOf(a, b).dev, OnDeviceOf(a, b).idx,
              a.grad \/ b.grad, PromoteDims(a, b),
              BroadcastShape(a.shape, b.shape), WhereElems(c, a, b), "new"))

(***************************************************************************)
(* jnp.hstack, jnp.maximum, jnp.where: both operands are DeviceArrays.     *)
(***************************************************************************)
jnp_hstack(a, b) ==
  IF ~Stackable(AtLeast1d(a.shape), AtLeast1d(b.shape)) THEN Err(ShapeError)
  ELSE Ok(Val("jax", "none", 0, FALSE, "f32",
              StackShape(AtLeast1d(a.shape), AtLeast1d(b.shape)),
              StackElems(AtLeast1d(a.shape), a.elems, AtLeast1d(b.shape), b.elems),
              "new"))

jnp_maximum(a, b) ==
  IF ~Broadcastable(a.shape, b.shape) THEN Err(ShapeError)
  ELSE Ok(Val("jax", "none", 0, FALSE, "f32",
              BroadcastShape(a.shape, b.shape), MaxElems(a, b), "new"))

\* jnp.where takes an ndarray or DeviceArray condition, not a torch tensor.
jnp_where(c, a, b) ==
  IF c.kind = "torch" THEN Err(ConditionError)
  ELSE IF ~Broadcastable(a.shape, b.shape) THEN Err(ShapeError)
  ELSE Ok(Val("jax", "none", 0, FALSE, "f32",
              BroadcastShape(a.shape, b.shape), WhereElems(c, a, b), "new"))

(***************************************************************************)
(* np.hstack, np.maximum, np.where: numpy coerces each operand with        *)
(* np.asarray, which calls Tensor.__array__ on a torch tensor.  That call  *)
(* raises for a tensor that is not on the CPU or that requires grad.       *)
(***************************************************************************)
NotCoercible(v) == v.kind = "torch" /\ (v.dev # "cpu" \/ v.grad)

asarray(v) ==
  IF isNdarray(v) THEN v
  ELSE Val("numpy", "none", 0, FALSE, v.dtype, v.shape, v.elems, "new")

np_hstack(a, b) ==
  IF NotCoercible(a) \/ NotCoercible(b) THEN Err(BackendError)
  ELSE IF ~Stackable(AtLeast1d(a.shape), AtLeast1d(b.shape)) THEN Err(ShapeError)
  ELSE Ok(Val("numpy", "none", 0, FALSE, Promote(a.dtype, b.dtype),
              StackShape(AtLeast1d(a.shape), AtLeast1d(b.shape)),
              StackElems(AtLeast1d(a.shape), asarray(a).elems,
                         AtLeast1d(b.shape), asarray(b).elems),
              "new"))

\* np.maximum is a ufunc.  Its result is handed to the __array_wrap__ of the
\* operand with the highest __array_priority__: torch.Tensor (priority 1000)
\* wraps it with torch.from_numpy, so a CPU tensor comes back.  Without a
\* tensor operand a result of rank 0 is returned as a numpy scalar.
np_maximum(a, b) ==
  IF NotCoercible(a) \/ NotCoercible(b) THEN Err(BackendError)
  ELSE IF ~Broadcastable(a.shape, b.shape) THEN Err(ShapeError)
  ELSE LET o == BroadcastShape(a.shape, b.shape)
           k == IF is_tensor(a) \/ is_tensor(b) THEN "torch"
                ELSE IF o = <<>> THEN "npscalar" ELSE "numpy"
       IN Ok(Val(k, IF k = "torch" THEN "cpu" ELSE "none", 0, FALSE,
                 PromoteDims(asarray(a), asarray(b)), o, MaxElems(a, b), "new"))

\* np.where is no ufunc: the result is an ndarray.
np_where(c, a, b) ==
  IF NotCoercible(a) \/ NotCoercible(b) THEN Err(BackendError)
  ELSE IF c.kind = "torch" /\ c.dev # "cpu" THEN Err(BackendError)
  ELSE IF ~Broadcastable(a.shape, b.shape) THEN Err(ShapeError)
  ELSE Ok(Val("numpy", "none", 0, FALSE, PromoteDims(asarray(a), asarray(b)),
              BroadcastShape(a.shape, b.shape), WhereElems(c, a, b), "new"))

(***************************************************************************)
(* hstack, maximum, where                                                  *)
(***************************************************************************)
\* Mutant: the torch branch is taken when either operand is a tensor.
hstack_any_tensor(a, b) ==
  IF is_tensor(a) \/ is_tensor(b) THEN torch_hstack(a, b)
  ELSE IF isDeviceArray(a) /\ isDeviceArray(b) THEN jnp_hstack(a, b)
  ELSE np_hstack(a, b)

hstack(a, b) ==
  IF is_tensor(a) /\ is_tensor(b) THEN torch_hstack(a, b)
  ELSE IF isDeviceArray(a) /\ isDeviceArray(b) THEN jnp_hstack(a, b)
  ELSE np_hstack(a, b)

\* Mutant: the fallback converts both operands to host arrays first.
maximum_coercing(a, b) ==
  IF is_tensor(a) /\ is_tensor(b) THEN torch_maximum(a, b)
  ELSE IF isDeviceArray(a) /\ isDeviceArray(b) THEN jnp_maximum(a, b)
  ELSE np_maximum(datatype_convert(a, NUMPY).val, datatype_convert(b, NUMPY).val)

maximum(a, b) ==
  IF is_tensor(a) /\ is_tensor(b) THEN torch_maximum(a, b)
  ELSE IF isDeviceArray(a) /\ isDeviceArray(b) THEN jnp_maximum(a, b)
  ELSE np_maximum(a, b)

where(c, a, b, lenient) ==
  IF is_tensor(a) /\ is_tensor(b) THEN torch_where(c, a, b, lenient)
  ELSE IF isDeviceArray(a) /\ isDeviceArray(b) THEN jnp_where(c, a, b)
  ELSE np_where(c, a, b)

(***************************************************************************)
(* get_env_dimensions.  An environment is a record                         *)
(*   vector      the attribute is_vector_env: "absent", "true" or "false"  *)
(*   goalspace   the observation spaces are Dict spaces with the keys      *)
(*               "observation", "achieved_goal" and "desired_goal"         *)
(*   has_single  the attributes single_action_space and                    *)
(*               single_observation_space exist                            *)
(*   space       shape[-1] of action_space and of (the entries of)         *)
(*               observation_space; single the same for the single_ spaces *)
(***************************************************************************)
SpaceError == "environment: attribute or space entry missing"

Put(d, key, v) ==
  [k \in DOMAIN d \cup {key} |-> IF k = key THEN v ELSE d[k]]

DimKeys ==
  {"action_dim", "observation_dim", "achieved_goal_dim", "desired_goal_dim"}

\* The outcome of the call and the caller's info dict after it.
get_env_dimensions(inf, goalenv, e) ==
  LET gymvecenv == IF e.vector = "absent" THEN FALSE ELSE e.vector = "true"
      sp == IF gymvecenv THEN e.single ELSE e.space
      dims == EmptyDict
      info1 == Put(inf, "action_dim", sp.action)
      info2 == Put(info1, "observation_dim", sp.observation)
      info3 == Put(info2, "achieved_goal_dim",
                   IF goalenv THEN sp.achieved_goal ELSE PyNone)
      info4 == Put(info3, "desired_goal_dim",
                   IF goalenv THEN sp.desired_goal ELSE PyNone)
  IN IF gymvecenv /\ ~e.has_single THEN <<Err(SpaceError), inf>>
     ELSE IF goalenv # e.goalspace THEN <<Err(SpaceError), info1>>
     ELSE <<OkDict(dims), info4>>

(***************************************************************************)
(* Specification of the single-operand calls.                              *)
(***************************************************************************)
NoCond == [kind |-> "none", dev |-> "none", idx |-> 0, val |-> FALSE]

NoEnv ==
  [vector |-> "none", goalspace |-> FALSE, has_single |-> FALSE,
   space |-> EmptyDict, single |-> EmptyDict]

Idle ==
  /\ op = "none"
  /\ arg_datatype = "none"
  /\ arg_shape = <<>>
  /\ res = Err("none")

Init ==
  /\ ncuda \in 0..MaxCuda
  /\ x \in Values(ncuda, "x")
  /\ y = NoValue
  /\ cond = NoCond
  /\ env = NoEnv
  /\ is_goalenv = FALSE
  /\ info = EmptyDict
  /\ Idle

Frame == UNCHANGED <<ncuda, x, y, cond, env, is_goalenv, info>>

Classify ==
  /\ op = "none"
  /\ op' = "get_datatype"
  /\ res' = get_datatype(x)
  /\ UNCHANGED <<arg_datatype, arg_shape>>
  /\ Frame

Convert ==
  /\ op = "none"
  /\ \E t \in DataType \cup {None} :
       /\ op' = "datatype_convert"
       /\ arg_datatype' = t
       /\ res' = datatype_convert(x, t)
  /\ UNCHANGED arg_shape
  /\ Frame

Reshape ==
  /\ op = "none"
  /\ \E s \in Shapes :
       /\ op' = "reshape"
       /\ arg_shape' = s
       /\ res' = reshape(x, s)
  /\ UNCHANGED arg_datatype
  /\ Frame

Squeeze ==
  /\ op = "none"
  /\ op' = "squeeze"
  /\ res' = squeeze(x)
  /\ UNCHANGED <<arg_datatype, arg_shape>>
  /\ Frame

Next == Classify \/ Convert \/ Reshape \/ Squeeze

Spec == Init /\ [][Next]_vars

(***************************************************************************)
(* Specification of the dual-operand calls, on operands that are CPU or    *)
(* CUDA tensors, DeviceArrays, ndarrays, lists or floats.                  *)
(***************************************************************************)
Operands(n, id) == {v \in Values(n, id) : v.dev # "xla"}

Conds(n) ==
  {[kind |-> "numpy", dev |-> "none", idx |-> 0, val |-> b] : b \in BOOLEAN}
    \cup {[kind |-> "torch", dev |-> "cpu", idx |-> 0, val |-> b] : b \in BOOLEAN}
    \cup {[kind |-> "torch", dev |-> "cuda", idx |-> 0, val |-> b] :
            b \in {c \in BOOLEAN : n > 0}}

InitDual ==
  /\ ncuda \in 0..MaxCuda
  /\ x \in Operands(ncuda, "x")
  /\ y \in Operands(ncuda, "y")
  /\ cond = NoCond
  /\ env = NoEnv
  /\ is_goalenv = FALSE
  /\ info = EmptyDict
  /\ Idle

Hstack ==
  /\ op = "none"
  /\ op' = "hstack"
  /\ res' = hstack(x, y)
  /\ UNCHANGED <<arg_datatype, arg_shape>>
  /\ Frame

Maximum ==
  /\ op = "none"
  /\ op' = "maximum"
  /\ res' = maximum(x, y)
  /\ UNCHANGED <<arg_datatype, arg_shape>>
  /\ Frame

Where ==
  /\ op = "none"
  /\ \E c \in Conds(ncuda), lenient \in BOOLEAN :
       /\ op' = "where"
       /\ cond' = c
       /\ res' = where(c, x, y, lenient)
  /\ UNCHANGED <<ncuda, x, y, env, is_goalenv, info, arg_datatype, arg_shape>>

NextDual == Hstack \/ Maximum \/ Where

SpecDual == InitDual /\ [][NextDual]_vars

(***************************************************************************)
(* Specification of get_env_dimensions.                                    *)
(***************************************************************************)
SpaceDims(goalspace) ==
  {[action |-> a, observation |-> o, achieved_goal |-> g, desired_goal |-> d] :
     a \in 1..MaxSpaceDim, o \in 1..MaxSpaceDim,
     g \in {n \in 0..MaxSpaceDim : (n = PyNone) = ~goalspace},
     d \in {n \in 0..MaxSpaceDim : (n = PyNone) = ~goalspace}}

NoSpace ==
  [action |-> PyNone, observation |-> PyNone, achieved_goal |-> PyNone,
   desired_goal |-> PyNone]

Envs ==
  UNION {{[vector |-> v, goalspace |-> g, has_single |-> TRUE,
           space |-> s, single |-> t] :
            v \in {"absent", "true", "false"}, s \in SpaceDims(g),
            t \in SpaceDims(g)}
         \cup {[vector |-> v, goalspace |-> g, has_single |-> FALSE,
                 space |-> s, single |-> NoSpace] :
                  v \in {"absent", "true", "false"}, s \in SpaceDims(g)} :
         g \in BOOLEAN}

InitEnv ==
  /\ ncuda = 0
  /\ x = NoValue
  /\ y = NoValue
  /\ cond = NoCond
  /\ env \in Envs
  /\ is_goalenv \in BOOLEAN
  /\ info \in {EmptyDict, Put(EmptyDict, "max_episode_steps", MaxSpaceDim)}
  /\ Idle

GetEnvDimensions ==
  /\ op = "none"
  /\ op' = "get_env_dimensions"
  /\ res' = get_env_dimensions(info, is_goalenv, env)[1]
  /\ info' = get_env_dimensions(info, is_goalenv, env)[2]
  /\ UNCHANGED <<ncuda, x, y, cond, env, is_goalenv, arg_datatype, arg_shape>>

NextEnv == GetEnvDimensions

SpecEnv == InitEnv /\ [][NextEnv]_vars

(***************************************************************************)
(* Properties of the single-operand calls, checked under Spec.             *)
(***************************************************************************)
Classified(v) == get_datatype(v).ok

Tag(v) == get_datatype(v).tag

Converted == op = "datatype_convert" /\ arg_datatype \in DataType

\* C1: get_datatype returns the result of the first matching check: a torch
\* tensor on "cpu" gives TORCH_CPU, on "cuda" TORCH_CUDA, on any other device
\* the unsupported-device error; else a DeviceArray gives JAX; else an ndarray
\* gives NUMPY; else (a list, a float) the unrecognized-type error.  Every
\* input yields exactly one tag or exactly one error.
C1_ClassifyFirstMatch ==
  op = "get_datatype" =>
    /\ x.kind = "torch" /\ x.dev = "cpu" => res.ok /\ res.tag = TORCH_CPU
    /\ x.kind = "torch" /\ x.dev = "cuda" => res.ok /\ res.tag = TORCH_CUDA
    /\ x.kind = "torch" /\ x.dev \notin {"cpu", "cuda"} =>
         ~res.ok /\ res.err = UnsupportedDevice
    /\ x.kind = "jax" => res.ok /\ res.tag = JAX
    /\ x.kind = "numpy" => res.ok /\ res.tag = NUMPY
    /\ x.kind \in {"list", "scalar"} => ~res.ok /\ res.err = UnrecognizedType
    /\ res.ok => res.tag \in DataType /\ res.err = "none"
    /\ ~res.ok => res.tag = "none" /\ res.err \in {UnsupportedDevice, UnrecognizedType}

C1_Witness ==
  /\ op = "get_datatype"
  /\ x.kind = "torch" /\ x.dev = "xla"
  /\ res.err = UnsupportedDevice

\* C2: for every target tag T and every classified value v, the output of
\* datatype_convert(v, T) is classified T; the call fails only when T is
\* TORCH_CUDA and the host has no CUDA device.
C2_ConvertedHasTargetTag ==
  Converted /\ Classified(x) =>
    /\ res.ok => get_datatype(res.val) = OkTag(arg_datatype)
    /\ ~res.ok => arg_datatype = TORCH_CUDA /\ ncuda = 0 /\ res.err = BackendError

C2_Witness ==
  /\ Converted /\ arg_datatype = TORCH_CUDA
  /\ x.kind = "jax"
  /\ res.ok /\ Tag(res.val) = TORCH_CUDA

\* C3: with the target None datatype_convert returns the very object it was
\* given, without error, for every input.
C3_NonePassthrough ==
  op = "datatype_convert" /\ arg_datatype = None => res.ok /\ res.val = x

C3_Witness ==
  /\ op = "datatype_convert" /\ arg_datatype = None
  /\ x.kind = "list"
  /\ res.ok /\ res.val.id = "x"

\* C4: converting a classified value to NUMPY and back to its original tag
\* gives a value of the original tag with the same shape and elements.
C4_RoundTripThroughHost ==
  Converted /\ arg_datatype = NUMPY /\ Classified(x) =>
    /\ res.ok
    /\ LET back == datatype_convert(res.val, Tag(x))
       IN /\ back.ok
          /\ get_datatype(back.val) = OkTag(Tag(x))
          /\ back.val.shape = x.shape
          /\ back.val.elems = x.elems

C4_Witness ==
  /\ Converted /\ arg_datatype = NUMPY
  /\ x.kind = "torch" /\ x.dev = "cuda" /\ x.dtype = "f64"
  /\ Big \in {x.elems[i] : i \in DOMAIN x.elems}
  /\ res.ok /\ isNdarray(res.val)

\* C5 as claimed: datatype_convert(v, T) returns v itself if and only if v is
\* classified T.
C5_SameObjectIffSameTag ==
  Converted /\ res.ok => (res.val = x <=> get_datatype(x) = OkTag(arg_datatype))

\* C5 as amended: datatype_convert(v, T) returns v itself if and only if v is
\* classified T and, for T = TORCH_CUDA, v is on the current CUDA device; a
\* CUDA tensor on another device is copied to the current one.  Whenever it
\* does not return v it returns a newly built value, or fails because the
\* target is TORCH_CUDA and the host has no CUDA device.
C5_SameObjectIffAlreadyThere ==
  Converted =>
    /\ res.ok =>
         /\ res.val = x <=>
              /\ get_datatype(x) = OkTag(arg_datatype)
              /\ arg_datatype = TORCH_CUDA => <<x.dev, x.idx>> = CurrentCuda
         /\ res.val # x => res.val.id = "new"
    /\ ~res.ok <=> arg_datatype = TORCH_CUDA /\ ncuda = 0

C5_Witness ==
  /\ Converted /\ arg_datatype = TORCH_CUDA
  /\ x.kind = "torch" /\ x.dev = "cuda" /\ <<x.dev, x.idx>> # CurrentCuda
  /\ res.ok /\ res.val.id = "new" /\ <<res.val.dev, res.val.idx>> = CurrentCuda

\* C6 as claimed: datatype_convert with a target tag fails with the
\* unrecognized-type error on a source get_datatype rejects as unrecognized.
C6_UnrecognizedSourceFails ==
  Converted /\ get_datatype(x).err = UnrecognizedType =>
    ~res.ok /\ res.err = UnrecognizedType

\* C6 as amended: on a list or a float, which get_datatype rejects as
\* unrecognized, datatype_convert with a target tag T never raises the
\* unrecognized-type error: it builds a value classified T with the source's
\* shape and elements (in the dtype of the value built), and fails only when
\* T is TORCH_CUDA and the host has no CUDA device.
C6_UnrecognizedSourceCoerced ==
  Converted /\ x.kind \in {"list", "scalar"} =>
    /\ res.err # UnrecognizedType
    /\ res.ok =>
         /\ get_datatype(res.val) = OkTag(arg_datatype)
         /\ res.val.id = "new"
         /\ res.val.shape = x.shape
         /\ res.val.elems = Cast(res.val.dtype, x.elems)
    /\ ~res.ok => arg_datatype = TORCH_CUDA /\ ncuda = 0

C6_Witness ==
  /\ Converted /\ arg_datatype = JAX
  /\ x.kind = "list" /\ ~Classified(x)
  /\ res.ok /\ isDeviceArray(res.val)

\* C10: reshape and squeeze of a classified operand give a result of the
\* operand's tag; of a list or a float they give a host array; neither fails
\* with a type error (reshape fails only when the sizes differ).
C10_SingleOperandKeepsTag ==
  op \in {"reshape", "squeeze"} =>
    /\ Classified(x) /\ res.ok => get_datatype(res.val) = OkTag(Tag(x))
    /\ x.kind \in {"list", "scalar"} /\ res.ok => get_datatype(res.val) = OkTag(NUMPY)
    /\ res.err \notin {UnrecognizedType, UnsupportedDevice}
    /\ op = "squeeze" => res.ok
    /\ op = "reshape" => (res.ok <=> Size(arg_shape) = Size(x.shape))
    /\ ~res.ok => res.err = ShapeError

C10_Witness ==
  /\ op = "reshape"
  /\ x.kind = "list" /\ arg_shape # x.shape
  /\ res.ok /\ isNdarray(res.val) /\ res.val.shape = arg_shape

(***************************************************************************)
(* Properties of the dual-operand calls, checked under SpecDual.           *)
(***************************************************************************)
Dual == op \in {"hstack", "maximum", "where"}

BothTensors == is_tensor(x) /\ is_tensor(y)

BothDeviceArrays == isDeviceArray(x) /\ isDeviceArray(y)

Fallback == ~BothTensors /\ ~BothDeviceArrays

\* The numpy operation on operands converted to host arrays beforehand.
OnHost(v) == datatype_convert(v, NUMPY).val

HostResult ==
  IF op = "hstack" THEN np_hstack(OnHost(x), OnHost(y))
  ELSE IF op = "maximum" THEN np_maximum(OnHost(x), OnHost(y))
  ELSE np_where(cond, OnHost(x), OnHost(y))

EqualsHostResult ==
  /\ HostResult.ok
  /\ res.val.shape = HostResult.val.shape
  /\ res.val.elems = HostResult.val.elems
  /\ res.val.dtype = HostResult.val.dtype

\* numpy can read both operands (and the condition of where).
Coercible ==
  /\ ~NotCoercible(x)
  /\ ~NotCoercible(y)
  /\ op = "where" => ~(cond.kind = "torch" /\ cond.dev # "cpu")

\* C7 as claimed (for operands whose shapes fit): the result is a torch
\* tensor exactly when both operands are torch tensors, an accelerator array
\* exactly when both are DeviceArrays, and in every other combination a host
\* array equal to the numpy operation on the host-coerced operands.
C7_DispatchOnBothOperands ==
  Dual /\ res.err # ShapeError =>
    /\ res.ok /\ is_tensor(res.val) => BothTensors
    /\ res.ok /\ isDeviceArray(res.val) => BothDeviceArrays
    /\ BothTensors /\ res.ok => is_tensor(res.val)
    /\ BothDeviceArrays /\ res.ok => isDeviceArray(res.val)
    /\ Fallback => res.ok /\ isNdarray(res.val) /\ EqualsHostResult

\* C7 as amended: the torch operation is applied when both operands are torch
\* tensors and gives, when it completes, a torch tensor; the jax operation is
\* applied when both are DeviceArrays and gives an accelerator array, and
\* nothing else gives one.  Every other combination is handed to numpy as it
\* is: the call fails when an operand (or the condition of where) is a
\* tensor numpy cannot read, one off the CPU or requiring grad; otherwise it
\* completes when the shapes fit, with the elements of the numpy operation on
\* the host-coerced operands, as a host array for hstack and where, and for
\* maximum as a CPU torch tensor when an operand is a torch tensor, a numpy
\* scalar when both operands have rank 0, and a host array otherwise.
C7_DispatchAsCoded ==
  Dual =>
    /\ BothTensors /\ res.ok => is_tensor(res.val)
    /\ BothDeviceArrays /\ res.ok => isDeviceArray(res.val)
    /\ res.ok /\ isDeviceArray(res.val) => BothDeviceArrays
    /\ Fallback /\ ~Coercible => ~res.ok /\ res.err = BackendError
    /\ Fallback /\ Coercible =>
         /\ ~res.ok => res.err = ShapeError /\ ~HostResult.ok
         /\ res.ok =>
              /\ EqualsHostResult
              /\ IF op = "maximum" /\ (is_tensor(x) \/ is_tensor(y))
                 THEN get_datatype(res.val) = OkTag(TORCH_CPU)
                 ELSE IF op = "maximum" /\ Rank(x) = 0 /\ Rank(y) = 0
                 THEN res.val.kind = "npscalar"
                 ELSE isNdarray(res.val)

C7_Witness ==
  /\ op = "maximum"
  /\ is_tensor(x) /\ isNdarray(y) /\ Fallback /\ Coercible
  /\ res.ok /\ is_tensor(res.val)
  /\ Big \in {res.val.elems[i] : i \in DOMAIN res.val.elems}

\* C8 as claimed (for operands whose shapes fit): for operands classified
\* under two different tags the call completes and yields a host array.
C8_MismatchedBackendsGiveHostArray ==
  Dual /\ Classified(x) /\ Classified(y) /\ Tag(x) # Tag(y)
       /\ res.err # ShapeError =>
    res.ok /\ isNdarray(res.val)

\* C8 as amended: for operands classified under two different tags, the call
\* completes (when the shapes fit) only if numpy can read both operands and
\* the condition: no operand is a CUDA tensor or a tensor requiring grad.  It
\* then yields a host array, except that maximum yields a CPU tensor when an
\* operand is a CPU tensor and a numpy scalar when both operands have rank 0.
\* A CPU tensor paired with a CUDA tensor is handed to
\* torch, which yields a torch tensor or fails; a CUDA tensor or a tensor
\* requiring grad paired with a host array or an accelerator array fails.
C8_MismatchedBackendsAsCoded ==
  Dual /\ Classified(x) /\ Classified(y) /\ Tag(x) # Tag(y) =>
    IF BothTensors
    THEN /\ res.ok => is_tensor(res.val)
         /\ op = "hstack" => ~res.ok
    ELSE IF ~Coercible
    THEN ~res.ok /\ res.err = BackendError
    ELSE /\ ~res.ok => res.err = ShapeError
         /\ res.ok =>
              IF op = "maximum" /\ (is_tensor(x) \/ is_tensor(y))
              THEN get_datatype(res.val) = OkTag(TORCH_CPU)
              ELSE IF op = "maximum" /\ Rank(x) = 0 /\ Rank(y) = 0
              THEN res.val.kind = "npscalar"
              ELSE get_datatype(res.val) = OkTag(NUMPY)

C8_Witness ==
  /\ op = "hstack"
  /\ Tag(x) = TORCH_CUDA /\ ~x.grad /\ Tag(y) = NUMPY /\ x.shape = y.shape
  /\ ~res.ok /\ res.err = BackendError

(***************************************************************************)
(* Property of get_env_dimensions, checked under SpecEnv.                  *)
(***************************************************************************)
SpaceRead ==
  IF env.vector = "true" THEN env.single ELSE env.space

\* C9: get_env_dimensions returns a dict holding action_dim, observation_dim,
\* achieved_goal_dim and desired_goal_dim, the last two None exactly when
\* is_goalenv is false, read from the single_ spaces of a vector environment
\* and from action_space / observation_space otherwise.
C9_ReturnsDimensions ==
  op = "get_env_dimensions" /\ res.ok =>
    /\ DimKeys \subseteq DOMAIN res.dict
    /\ res.dict["action_dim"] = SpaceRead.action
    /\ res.dict["observation_dim"] = SpaceRead.observation
    /\ res.dict["achieved_goal_dim"] =
         (IF is_goalenv THEN SpaceRead.achieved_goal ELSE PyNone)
    /\ res.dict["desired_goal_dim"] =
         (IF is_goalenv THEN SpaceRead.desired_goal ELSE PyNone)
====
